---- MODULE Spec2Model ----
(***************************************************************************)
(* A model of src/src/compute_eps.py: the two entry points                 *)
(* get_epsilon_unbounded and get_epsilon_bounded, each a straight pipeline *)
(* (grid, privacy-loss density, flip, DFT, power, inverse DFT, flip, tail  *)
(* integral) followed by a Newton loop and the final window check.         *)
(*                                                                         *)
(* Numbers.  A float is modelled as a fixed-point number: the integer n    *)
(* stands for n/Scale.  The IEEE special values the code can produce       *)
(* (numpy arithmetic does not raise on a division by zero or an invalid    *)
(* operation, it returns inf or nan) are three reserved integers PInf,     *)
(* NInf and NaN.  A complex number is a pair <<re, im>> of such values.    *)
(***************************************************************************)
EXTENDS Integers, Sequences, FiniteSets, TLC

Scale == 60 * 1

PInf == 2^30
NInf == -PInf
NaN == PInf + 1

IsNaN(a) == a = NaN
IsInf(a) == a = PInf \/ a = NInf
IsFin(a) == ~IsNaN(a) /\ ~IsInf(a)

Abs(n) == IF n < 0 THEN -n ELSE n
Sgn(n) == IF n < 0 THEN -1 ELSE IF n > 0 THEN 1 ELSE 0

\* n/d for integers, rounded to the nearest integer, ties away from zero.
RoundDiv(n, d) ==
    Sgn(n) * Sgn(d) * ((2 * Abs(n) + Abs(d)) \div (2 * Abs(d)))

\* floor(n/d) for integers, d # 0.
FloorDiv(n, d) == IF d > 0 THEN n \div d ELSE (-n) \div (-d)

XNeg(a) == IF IsNaN(a) THEN NaN ELSE -a

XAdd(a, b) ==
    IF IsNaN(a) \/ IsNaN(b) THEN NaN
    ELSE IF IsInf(a) /\ IsInf(b) THEN (IF a = b THEN a ELSE NaN)
    ELSE IF IsInf(a) THEN a
    ELSE IF IsInf(b) THEN b
    ELSE a + b

XSub(a, b) == XAdd(a, XNeg(b))

\* The product of an integer literal k and a float.
XScale(k, a) ==
    IF IsNaN(a) THEN NaN
    ELSE IF IsInf(a) THEN (IF k = 0 THEN NaN ELSE IF k > 0 THEN a ELSE -a)
    ELSE k * a

XMul(a, b) ==
    IF IsNaN(a) \/ IsNaN(b) THEN NaN
    ELSE IF IsInf(a) \/ IsInf(b)
         THEN (IF a = 0 \/ b = 0 THEN NaN
               ELSE IF Sgn(a) * Sgn(b) > 0 THEN PInf ELSE NInf)
    ELSE RoundDiv(a * b, Scale)

\* numpy's division: x/0 is inf with the sign of x, 0/0 is nan, no exception.
XDiv(a, b) ==
    IF IsNaN(a) \/ IsNaN(b) THEN NaN
    ELSE IF IsInf(a) THEN (IF IsInf(b) THEN NaN
                           ELSE IF (a > 0) = (b >= 0) THEN PInf ELSE NInf)
    ELSE IF IsInf(b) THEN 0
    ELSE IF b = 0 THEN (IF a = 0 THEN NaN ELSE IF a > 0 THEN PInf ELSE NInf)
    ELSE RoundDiv(a * Scale, b)

\* a < b and a > b as IEEE compares: false when either side is nan.
XLt(a, b) == ~IsNaN(a) /\ ~IsNaN(b) /\ a < b
XGt(a, b) == XLt(b, a)

(***************************************************************************)
(* np.exp, np.log and np.sqrt on fixed-point numbers.  Each is computed    *)
(* the way a libm computes it (range reduction and a short series) at the  *)
(* internal precision 1/Prec, then rounded to 1/Scale.                     *)
(***************************************************************************)
Prec == 2^12
\* ln 2 and the fractional part of e, in units of 1/Prec.
Ln2P == (2839 * Prec) \div 4096
EFracP == (2942 * Prec) \div 4096
\* Beyond ExpMaxArg the result leaves the range of the number format: exp
\* overflows to inf, as np.exp does (with a warning) above 709.78.
ExpMaxArg == 6 * Scale

RECURSIVE ExpSeries(_, _, _, _)
\* sum_{j >= k} of (r/Scale)^j / j!, given term = (r/Scale)^k / k! * Prec.
ExpSeries(term, r, k, acc) ==
    IF term = 0 \/ k > 12 THEN acc
    ELSE ExpSeries(RoundDiv(term * r, Scale * (k + 1)), r, k + 1, acc + term)

RECURSIVE ExpShift(_, _)
\* v * e^m.
ExpShift(v, m) ==
    IF m = 0 THEN v
    ELSE IF m > 0 THEN ExpShift(2 * v + RoundDiv(v * EFracP, Prec), m - 1)
    ELSE ExpShift(RoundDiv(v * Prec, 2 * Prec + EFracP), m + 1)

XExp(a) ==
    IF IsNaN(a) THEN NaN
    ELSE IF a = PInf \/ (IsFin(a) /\ a >= ExpMaxArg) THEN PInf
    ELSE IF a = NInf \/ (IsFin(a) /\ a <= -2 * ExpMaxArg) THEN 0
    ELSE LET m == FloorDiv(a, Scale)
             r == a - m * Scale
         IN  RoundDiv(ExpShift(ExpSeries(Prec, r, 0, 0), m) * Scale, Prec)

RECURSIVE Log2Floor(_, _)
\* The m with 2^m <= v/Scale < 2^(m+1), for v > 0.
Log2Floor(v, m) ==
    IF v >= 2 * Scale THEN Log2Floor(v \div 2, m + 1)
    ELSE IF v < Scale THEN Log2Floor(2 * v, m - 1)
    ELSE m

RECURSIVE Pow2Scaled(_, _)
\* v * 2^m for m >= 0.
Pow2Scaled(v, m) == IF m <= 0 THEN v ELSE Pow2Scaled(2 * v, m - 1)

\* ln of a real float: -inf at 0 and nan below 0 (np.log warns, no exception).
XLog(a) ==
    IF IsNaN(a) THEN NaN
    ELSE IF a = PInf THEN PInf
    ELSE IF a = NInf \/ a < 0 THEN NaN
    ELSE IF a = 0 THEN NInf
    ELSE LET m == Log2Floor(a, 0)
             num == IF m >= 0 THEN a - Pow2Scaled(Scale, m)
                    ELSE Pow2Scaled(a, -m) - Scale
             den == IF m >= 0 THEN a + Pow2Scaled(Scale, m)
                    ELSE Pow2Scaled(a, -m) + Scale
             z == RoundDiv(num * Prec, den)
             z2 == RoundDiv(z * z, Prec)
             z3 == RoundDiv(z * z2, Prec)
             z5 == RoundDiv(z3 * z2, Prec)
             z7 == RoundDiv(z5 * z2, Prec)
             lnf == 2 * (z + RoundDiv(z3, 3) + RoundDiv(z5, 5) + RoundDiv(z7, 7))
         IN  RoundDiv((m * Ln2P + lnf) * Scale, Prec)

RECURSIVE ISqrt(_, _, _)
\* The largest r in lo..hi with r*r <= n.
ISqrt(n, lo, hi) ==
    IF lo >= hi THEN lo
    ELSE LET mid == (lo + hi + 1) \div 2
         IN  IF mid * mid <= n THEN ISqrt(n, mid, hi) ELSE ISqrt(n, lo, mid - 1)

\* The square root of a real float: nan below 0.
XSqrt(a) ==
    IF IsNaN(a) THEN NaN
    ELSE IF a = PInf THEN PInf
    ELSE IF a < 0 THEN NaN
    ELSE LET n == a * Scale
             r == ISqrt(n, 0, 40000)
         IN  IF n - r * r > r THEN r + 1 ELSE r

\* np.maximum: the larger value, nan if either is nan.
XMax(a, b) == IF IsNaN(a) \/ IsNaN(b) THEN NaN ELSE IF a >= b THEN a ELSE b

\* abs(a) > b, false when a is nan.
XAbsGt(a, b) == ~IsNaN(a) /\ (IsInf(a) \/ Abs(a) > b)

(***************************************************************************)
(* Complex numbers <<re, im>> and numpy's rules for them.                  *)
(***************************************************************************)
CRe(z) == z[1]
CIm(z) == z[2]
CReal(a) == <<a, 0>>
CZero == <<0, 0>>
CAdd(z, w) == <<XAdd(z[1], w[1]), XAdd(z[2], w[2])>>
CSub(z, w) == <<XSub(z[1], w[1]), XSub(z[2], w[2])>>
CMul(z, w) ==
    <<XSub(XMul(z[1], w[1]), XMul(z[2], w[2])),
      XAdd(XMul(z[1], w[2]), XMul(z[2], w[1]))>>
\* A complex number times, or divided by, a real float.
CMulReal(z, r) == <<XMul(z[1], r), XMul(z[2], r)>>
CDivReal(z, r) == <<XDiv(z[1], r), XDiv(z[2], r)>>
\* A complex number divided by the integer n (the 1/n of the inverse DFT).
CDivInt(z, n) ==
    <<IF IsFin(z[1]) THEN RoundDiv(z[1], n) ELSE z[1],
      IF IsFin(z[2]) THEN RoundDiv(z[2], n) ELSE z[2]>>

\* numpy's complex division.  A zero divisor gives <<re/0, im/0>>, so a
\* real numerator over 0 is <<+-inf, nan>>; no exception is raised.
CDiv(z, w) ==
    IF w = CZero THEN <<XDiv(z[1], 0), XDiv(z[2], 0)>>
    ELSE IF IsFin(z[1]) /\ IsFin(z[2]) /\ IsFin(w[1]) /\ IsFin(w[2])
    THEN LET den == w[1] * w[1] + w[2] * w[2]
         IN  <<RoundDiv((z[1] * w[1] + z[2] * w[2]) * Scale, den),
               RoundDiv((z[2] * w[1] - z[1] * w[2]) * Scale, den)>>
    ELSE <<NaN, NaN>>

\* np.exp of a complex number.  Every complex number of the model has the
\* imaginary part 0 or nan (see ImagExact), so cos and sin are needed at 0
\* only: exp(a + 0i) = exp(a) + 0i.
CExp(z) == IF z[2] = 0 THEN <<XExp(z[1]), 0>> ELSE <<NaN, NaN>>

\* z ** n for a whole n >= 1, by repeated multiplication.
RECURSIVE CPow(_, _)
CPow(z, n) == IF n <= 1 THEN z ELSE CMul(z, CPow(z, n - 1))

\* np.abs(z) > tol: the modulus is hypot(re, im), which is inf when either
\* part is inf, else nan when either part is nan; a nan compares false.
CAbsGt(z, tol) ==
    IF IsInf(z[1]) \/ IsInf(z[2]) THEN TRUE
    ELSE IF IsNaN(z[1]) \/ IsNaN(z[2]) THEN FALSE
    ELSE z[1] * z[1] + z[2] * z[2] > tol * tol

\* numpy orders complex numbers lexicographically; z < w and z > w are
\*   (zr < wr and neither imaginary part is nan) or (zr = wr and zi < wi).
CLt(z, w) ==
    \/ (XLt(z[1], w[1]) /\ ~IsNaN(z[2]) /\ ~IsNaN(w[2]))
    \/ (~IsNaN(z[1]) /\ z[1] = w[1] /\ XLt(z[2], w[2]))
CGt(z, w) == CLt(w, z)

(***************************************************************************)
(* Arrays are functions on 0..n-1, indexed as in Python.                   *)
(***************************************************************************)
Idx(n) == 0 .. (n - 1)
Size(a) == Cardinality(DOMAIN a)

\* The first index of the Python slice a[s:] of an array of n elements: a
\* negative s counts from the end, and the result is clipped to 0..n.
SliceStart(n, s) ==
    IF s < 0 THEN (IF n + s < 0 THEN 0 ELSE n + s)
    ELSE IF s > n THEN n ELSE s

\* The indices of a[s:].
SliceFrom(n, s) == SliceStart(n, s) .. (n - 1)

\* numpy's a[slice] = b succeeds when b has as many elements as the slice,
\* or exactly one (broadcast); otherwise it raises ValueError.
AssignOK(dstLen, srcLen) == srcLen = dstLen \/ srcLen = 1

RECURSIVE CSumOver(_, _)
\* np.sum of the complex array a over the index set I (0 for an empty set).
CSumOver(a, I) ==
    IF I = {} THEN CZero
    ELSE LET i == CHOOSE j \in I : \A k \in I : j <= k
         IN  CAdd(a[i], CSumOver(a, I \ {i}))

(***************************************************************************)
(* The flip D = [0 I; I 0] and the discrete Fourier transform.             *)
(***************************************************************************)
\* half = int(nx / 2)
Half(n) == n \div 2

\* temp = np.copy(fx[half:]); fx[half:] = np.copy(fx[:half]); fx[:half] = temp
\* raises ValueError when one of the two slice assignments cannot broadcast.
FlipRaises(n) ==
    \/ ~AssignOK(n - SliceStart(n, Half(n)), SliceStart(n, Half(n)))
    \/ ~AssignOK(SliceStart(n, Half(n)), n - SliceStart(n, Half(n)))

\* The flip with temp taken as a view instead of a copy: the second half
\* is overwritten before it is read.
FlipNoCopy(a) ==
    LET n == Size(a)
        h == Half(n)
    IN  [i \in Idx(n) |-> IF i >= h THEN a[i - h] ELSE a[i]]

\* The flip of fx (a real array): the array after the three statements.
Flip(a) ==
    LET n == Size(a)
        h == Half(n)
        temp == [j \in Idx(n - h) |-> a[h + j]]
        a1 == [i \in Idx(n) |->
                 IF i >= h THEN (IF h = n - h THEN a[i - h] ELSE a[0])
                 ELSE a[i]]
    IN  [i \in Idx(n) |->
           IF i < h THEN (IF n - h = h THEN temp[i] ELSE temp[0])
           ELSE a1[i]]

\* The flip of cfx (a complex array):
\* temp = np.copy(cfx[half:]); cfx[half:] = cfx[:half]; cfx[:half] = temp
FlipC(a) ==
    LET n == Size(a)
        h == Half(n)
        temp == [j \in Idx(n - h) |-> a[h + j]]
        a1 == [i \in Idx(n) |->
                 IF i >= h THEN (IF h = n - h THEN a[i - h] ELSE a[0])
                 ELSE a[i]]
    IN  [i \in Idx(n) |->
           IF i < h THEN (IF n - h = h THEN temp[i] ELSE temp[0])
           ELSE a1[i]]

\* cos and sin of a * 30 degrees, a in 0..11, as fixed-point numbers.
Rt3Half == XSqrt(3 * Scale) \div 2
Cos12(a) ==
    CASE a \in {0} -> Scale
      [] a \in {1, 11} -> Rt3Half
      [] a \in {2, 10} -> Scale \div 2
      [] a \in {3, 9} -> 0
      [] a \in {4, 8} -> -(Scale \div 2)
      [] a \in {5, 7} -> -Rt3Half
      [] a \in {6} -> -Scale
Sin12(a) == Cos12((a + 9) % 12)

\* exp(2 pi i m / n) for n dividing 12.
Twiddle(n, m) ==
    LET a == ((12 \div n) * m) % 12
    IN  <<Cos12(a), Sin12(a)>>

\* np.fft.fft (dir = -1) and n times np.fft.ifft (dir = 1) of a complex array.
DftSum(a, k, dir) ==
    CSumOver([j \in DOMAIN a |-> CMul(a[j], Twiddle(Size(a), dir * j * k))],
             DOMAIN a)
Fft(a) == [k \in DOMAIN a |-> DftSum(a, k, -1)]
Ifft(a) == [k \in DOMAIN a |-> CDivInt(DftSum(a, k, 1), Size(a))]

(***************************************************************************)
(* The pipeline's steps as functions of the arguments.                     *)
(***************************************************************************)
\* np.pi
Pi == (355 * Scale) \div 113
\* tol_newton = 1e-10, rounded to the format.
TolNewton == (Scale \div 10^9) \div 10
\* The 1e-16 floor of term1: its role is to keep the logarithm's argument
\* positive, so it is the smallest positive number of the format.
TermFloor == 1 + 0 * Scale

\* dx = 2.0 * L / nx
Dx(nx, L) == RoundDiv(2 * L, nx)

\* x = np.linspace(-L, L - dx, nx, dtype=np.complex128)
Linspace(nx, L) ==
    LET start == -L
        stop == L - Dx(nx, L)
        step == IF nx > 1 THEN RoundDiv(stop - start, nx - 1) ELSE 0
    IN  [i \in Idx(nx) |-> CReal(start + i * step)]

\* floor(nx * (L + v) / (2 * L)) for a finite v.
StartIndex(nx, L, v) == FloorDiv(nx * (L + v), 2 * L)

\* np.log(1 - q): -inf at q = 1, nan for q > 1.
LogOneMinusQ(q) == XLog(Scale - q)

\* ii = int(np.floor(float(nx * (L + np.log(1 - q)) / (2 * L)))); int() of
\* nan raises ValueError, int() of an infinity raises OverflowError.
IiRaises(q) == ~IsFin(LogOneMinusQ(q))
Ii(nx, L, q) == StartIndex(nx, L, LogOneMinusQ(q))

\* ALinvx: the Gaussian mixture weight at Linvx.
ALinvx(Linvx, sigma, q) ==
    LET sig2 == XMul(sigma, sigma)
        norm == XDiv(Scale, XSqrt(XScale(2, XMul(Pi, sig2))))
        e0 == XExp(XDiv(XNeg(XMul(Linvx, Linvx)), XScale(2, sig2)))
        l1 == XSub(Linvx, Scale)
        e1 == XExp(XDiv(XNeg(XMul(l1, l1)), XScale(2, sig2)))
    IN  XMul(norm, XAdd(XMul(Scale - q, e0), XMul(q, e1)))

\* The remove/add density np.real(ALinvx * dLinvx) at the grid point xi.
DensityUnbounded(xi, sigma, q) ==
    LET sig2 == XMul(sigma, sigma)
        ey == XExp(xi)
        Linvx == XAdd(XMul(sig2, XLog(XDiv(XSub(ey, Scale - q), q))),
                      Scale \div 2)
        dLinvx == XDiv(XMul(sig2, ey), XSub(ey, Scale - q))
    IN  XMul(ALinvx(Linvx, sigma, q), dLinvx)

\* fx = np.zeros(nx); fx[ii + 1:] = np.real(ALinvx * dLinvx), the density
\* being evaluated on x[ii + 1:].
FxUnbounded(x, ii, sigma, q) ==
    [i \in DOMAIN x |->
       IF i \in SliceFrom(Size(x), ii + 1)
       THEN DensityUnbounded(CRe(x[i]), sigma, q)
       ELSE 0]

\* c = q * np.exp(-1 / (2 * sigma ** 2)) divides two Python floats, which
\* raises ZeroDivisionError when sigma ** 2 is 0.
CRaises(sigma) == XMul(sigma, sigma) = 0
CConst(sigma, q) ==
    XMul(q, XExp(XDiv(-Scale, XScale(2, XMul(sigma, sigma)))))

\* The substitution density np.real(ALinvx * dLinvx) at the grid point xi.
DensityBounded(xi, sigma, q) ==
    LET sig2 == XMul(sigma, sigma)
        c == CConst(sigma, q)
        c2 == XMul(c, c)
        p == Scale - q
        p2 == XMul(p, p)
        ey == XExp(xi)
        omey == XSub(Scale, ey)
        sq == XSqrt(XAdd(XMul(p2, XMul(omey, omey)), XMul(XScale(4, c2), ey)))
        term1 == XMax(XDiv(XAdd(XNeg(XMul(p, omey)), sq), XScale(2, c)),
                      TermFloor)
        Linvx == XMul(sig2, XLog(term1))
        nom1 == XSub(XMul(XScale(4, c2), ey),
                     XMul(XMul(XScale(2, p2), ey), omey))
        term1b == XDiv(nom1, XScale(2, sq))
        nom2 == XMul(XAdd(term1b, XMul(p, ey)), XAdd(sq, XMul(p, omey)))
        dLinvx == XDiv(XMul(sig2, nom2), XMul(XScale(4, c2), ey))
    IN  XMul(ALinvx(Linvx, sigma, q), dLinvx)

\* ii = 1; fx = np.zeros(nx); fx[ii - 1:] = np.real(ALinvx * dLinvx)
FxBounded(x, sigma, q) ==
    [i \in DOMAIN x |->
       IF i \in SliceFrom(Size(x), 1 - 1)
       THEN DensityBounded(CRe(x[i]), sigma, q)
       ELSE 0]

\* FF1 = np.fft.fft(fx * dx)
Transform(fx, dx) == Fft([i \in DOMAIN fx |-> CReal(XMul(fx[i], dx))])

\* cfx = np.fft.ifft((FF1 ** ncomp / dx))
Compose(FF1, ncomp, dx) ==
    Ifft([k \in DOMAIN FF1 |-> CDivReal(CPow(FF1[k], ncomp), dx)])

\* The double product nx * (L + 0) is rounded.  For nx = 6 and L = 0.7 it
\* is 4.199999999999999, below 6 * 0.7, and the quotient by 2 * L = 1.4 is
\* 2.9999999999999996 instead of 3.
ProductRoundsBelow(nx, L) == nx = 6 /\ 10 * L = 7 * Scale

\* jj = int(np.floor(float(nx * (L + eps_0) / (2 * L)))) at eps_0 = 0.
Jj(nx, L) ==
    IF ProductRoundsBelow(nx, L) THEN FloorDiv(nx * (L + 0) - 1, 2 * L)
    ELSE StartIndex(nx, L, 0)

\* exp_e = 1 - np.exp(eps_0 - x) and dexp_e = -np.exp(eps_0 - x)
ExpE(eps, x) ==
    [i \in DOMAIN x |-> CSub(CReal(Scale), CExp(CSub(eps, x[i])))]
DexpE(eps, x) ==
    [i \in DOMAIN x |-> CSub(CZero, CExp(CSub(eps, x[i])))]

\* integrand = exp_e * cfx
Integrand(e, cfx) == [i \in DOMAIN cfx |-> CMul(e[i], cfx[i])]

\* delta_temp = np.sum(integrand[k + 1:]) * dx
TailDelta(eps, k, x, cfx, dx) ==
    CMulReal(CSumOver(Integrand(ExpE(eps, x), cfx),
                      SliceFrom(Size(x), k + 1)), dx)

\* derivative = np.sum(integrand2[k + 1:]) * dx
TailDerivative(eps, k, x, cfx, dx) ==
    CMulReal(CSumOver(Integrand(DexpE(eps, x), cfx),
                      SliceFrom(Size(x), k + 1)), dx)

\* while np.abs(delta_temp - target_delta) > tol_newton
NotConverged(delta, target) == CAbsGt(CSub(delta, CReal(target)), TolNewton)

\* eps_0 = eps_0 - (delta_temp - target_delta) / derivative
NewtonStep(eps, delta, deriv, target) ==
    CSub(eps, CDiv(CSub(delta, CReal(target)), deriv))

\* if (eps_0 < -L or eps_0 > L): break
LeavesWindow(eps, L) == CLt(eps, CReal(-L)) \/ CGt(eps, CReal(L))

\* kk = int(np.floor(float(nx * (L + np.real(eps_0)) / (2 * L)))) raises
\* when the real part of eps_0 is nan or an infinity.
KkRaises(eps) == ~IsFin(CRe(eps))
Kk(nx, L, eps) == StartIndex(nx, L, CRe(eps))

\* A final check of the upper end of the window only.
AboveWindow(eps, L) == XGt(CRe(eps), L)

\* if (np.real(eps_0) < -L or np.real(eps_0) > L)
OutOfWindow(eps, L) == XLt(CRe(eps), -L) \/ XGt(CRe(eps), L)

\* The first evaluation of an iteration:
\* integrand = exp_e * cfx; sum_int = np.sum(integrand[kk + 1:]);
\* delta_temp = sum_int * dx
FirstDelta(eps, k, x, cfx, dx) ==
    CMulReal(CSumOver(Integrand(ExpE(eps, x), cfx),
                      SliceFrom(Size(x), k + 1)), dx)

\* A sum over integrand[kk:] in place of integrand[kk + 1:].
DeltaFromKk(eps, k, x, cfx, dx) ==
    CMulReal(CSumOver(Integrand(ExpE(eps, x), cfx), SliceFrom(Size(x), k)),
             dx)

\* The second evaluation of an iteration, of delta_temp and derivative.
SecondDelta(eps, k, x, cfx, dx) ==
    CMulReal(CSumOver(Integrand(ExpE(eps, x), cfx),
                      SliceFrom(Size(x), k + 1)), dx)
SecondDerivative(eps, k, x, cfx, dx) ==
    CMulReal(CSumOver(Integrand(DexpE(eps, x), cfx),
                      SliceFrom(Size(x), k + 1)), dx)

(***************************************************************************)
(* The Newton loop with one tail evaluation per iteration, as a function   *)
(* of its loop-head state s = [pc, eps_0, delta_temp, derivative]: the     *)
(* loop test, the step, the window check and one evaluation.               *)
(***************************************************************************)
SingleEvaluationIteration(s, x, cfx, dx, target, L) ==
    IF s.pc # "head" THEN s
    ELSE IF ~NotConverged(s.delta_temp, target) THEN [s EXCEPT !.pc = "exit"]
    ELSE LET e == NewtonStep(s.eps_0, s.delta_temp, s.derivative, target)
         IN  IF LeavesWindow(e, L)
             THEN [s EXCEPT !.pc = "exit", !.eps_0 = e]
             ELSE IF KkRaises(e)
             THEN [s EXCEPT !.pc = "raised", !.eps_0 = e]
             ELSE [pc |-> "head", eps_0 |-> e,
                   delta_temp |->
                       TailDelta(e, Kk(Size(x), L, e), x, cfx, dx),
                   derivative |->
                       TailDerivative(e, Kk(Size(x), L, e), x, cfx, dx)]

(***************************************************************************)
(* The state: the position pc in an invocation, its arguments and local    *)
(* variables (named as in the source), and its outcome.  tail is the index *)
(* range of the last slice integrand[k + 1:]; simp is the loop with a      *)
(* single evaluation, run beside the loop as written; memo remembers one   *)
(* completed call; harr, horig and hflips are an array handed to the flip  *)
(* step, the array it was at first, and the number of flips applied.       *)
(***************************************************************************)
VARIABLES pc, variant, args, dx, x, ii, fx, FF1, cfx, jj, kk, tail, eps_0,
          delta_temp, derivative, result, exc, simp, memo, harr, horig,
          hflips

inputs == <<variant, args>>
grid == <<dx, x>>
density == <<ii, fx>>
composed == <<FF1, cfx, jj>>
newton == <<kk, tail, delta_temp, derivative>>
outcome == <<result, exc>>
harness == <<harr, horig, hflips>>
vars == <<pc, inputs, grid, density, composed, eps_0, newton, outcome, simp,
          memo, harness>>

\* The largest number of compositions ncomp drawn.
MaxNcomp == 2

Variants == {"unbounded", "bounded"}
NxSet == {0, 2, 3, 4, 6}
LSet == {(7 * Scale) \div 10, Scale, 2 * Scale}
SigmaSet == {-Scale, 0, Scale \div 4, Scale, 2 * Scale}
QSet == {Scale \div 2, (4 * Scale) \div 5, Scale, 2 * Scale}
TargetSet == {0, Scale \div 10, Scale \div 5}
ArgSet ==
    [target_delta : TargetSet, sigma : SigmaSet, q : QSet,
     ncomp : 1 .. MaxNcomp, nx : NxSet, L : LSet]

\* A local variable that has not been assigned.
Unset == <<>>
NoArgs == [target_delta |-> 0, sigma |-> 0, q |-> 0, ncomp |-> 0, nx |-> 0,
           L |-> 0]
None == [pc |-> "off"]

Terminal == {"idle", "returned", "raised"}

\* Leaving the function by an uncaught exception.
Raise(e) ==
    /\ pc' = "raised"
    /\ exc' = e
    /\ UNCHANGED <<inputs, grid, density, composed, eps_0, newton, result,
                   simp>>

\* A start of the iteration from the iterate an earlier call ended with.
WarmStartEps == IF memo.pc = "done" THEN memo.eps_0 ELSE CZero

\* eps_0 = 0
InitialEps == CZero

\* A call of get_epsilon_unbounded or get_epsilon_bounded: a new frame,
\* whose local variables are all unassigned.
Enter(v, a) ==
    /\ pc' = "grid"
    /\ variant' = v
    /\ args' = a
    /\ dx' = 0 /\ ii' = 0 /\ jj' = 0 /\ kk' = 0
    /\ x' = Unset /\ fx' = Unset /\ FF1' = Unset /\ cfx' = Unset
    /\ tail' = {}
    /\ eps_0' = CZero /\ delta_temp' = CZero /\ derivative' = CZero
    /\ result' = 0
    /\ exc' = "none"
    /\ simp' = None

\* The caller invokes one of the two entry points.
Call ==
    /\ pc = "idle"
    /\ \E v \in Variants, a \in ArgSet : Enter(v, a)
    /\ UNCHANGED <<memo, harness>>

\* nx = int(nx); dx = 2.0 * L / nx; x = np.linspace(-L, L - dx, nx, ...)
Grid ==
    /\ pc = "grid"
    /\ IF args.nx = 0 THEN Raise("ZeroDivisionError")
       ELSE /\ dx' = Dx(args.nx, args.L)
            /\ x' = Linspace(args.nx, args.L)
            /\ pc' = "density"
            /\ UNCHANGED <<inputs, density, composed, eps_0, newton, outcome,
                           simp>>
    /\ UNCHANGED <<memo, harness>>

\* The boundary index, eps_0 = 0 and the privacy-loss density fx.
DensityStep ==
    /\ pc = "density"
    /\ IF variant = "unbounded"
       THEN IF IsNaN(LogOneMinusQ(args.q)) THEN Raise("ValueError")
            ELSE IF IiRaises(args.q) THEN Raise("OverflowError")
            ELSE /\ ii' = Ii(args.nx, args.L, args.q)
                 /\ fx' = FxUnbounded(x, Ii(args.nx, args.L, args.q),
                                      args.sigma, args.q)
                 /\ eps_0' = InitialEps
                 /\ pc' = "flip1"
                 /\ UNCHANGED <<inputs, grid, composed, newton, outcome, simp>>
       ELSE IF CRaises(args.sigma) THEN Raise("ZeroDivisionError")
            ELSE /\ ii' = 1
                 /\ fx' = FxBounded(x, args.sigma, args.q)
                 /\ eps_0' = InitialEps
                 /\ pc' = "flip1"
                 /\ UNCHANGED <<inputs, grid, composed, newton, outcome, simp>>
    /\ UNCHANGED <<memo, harness>>

\* Flip fx, i.e. fx <- D(fx).
FlipFx ==
    /\ pc = "flip1"
    /\ IF FlipRaises(args.nx) THEN Raise("ValueError")
       ELSE /\ fx' = Flip(fx)
            /\ pc' = "fft"
            /\ UNCHANGED <<inputs, grid, ii, composed, eps_0, newton, outcome,
                           simp>>
    /\ UNCHANGED <<memo, harness>>

\* FF1 = np.fft.fft(fx * dx); jj, the start of the integral domain.
FftStep ==
    /\ pc = "fft"
    /\ FF1' = Transform(fx, dx)
    /\ jj' = Jj(args.nx, args.L)
    /\ pc' = "ifft"
    /\ UNCHANGED <<inputs, grid, density, cfx, eps_0, newton, outcome, simp,
                   memo, harness>>

\* cfx = np.fft.ifft((FF1 ** ncomp / dx))
IfftStep ==
    /\ pc = "ifft"
    /\ cfx' = Compose(FF1, args.ncomp, dx)
    /\ pc' = "flip2"
    /\ UNCHANGED <<inputs, grid, density, FF1, jj, eps_0, newton, outcome,
                   simp, memo, harness>>

\* Flip again, i.e. cfx <- D(cfx).
FlipCfx ==
    /\ pc = "flip2"
    /\ cfx' = FlipC(cfx)
    /\ pc' = "eval0"
    /\ UNCHANGED <<inputs, grid, density, FF1, jj, eps_0, newton, outcome,
                   simp, memo, harness>>

\* Evaluate delta(eps_0) and its derivative at the initial eps_0.
Eval0 ==
    /\ pc = "eval0"
    /\ tail' = SliceFrom(args.nx, jj + 1)
    /\ delta_temp' = TailDelta(eps_0, jj, x, cfx, dx)
    /\ derivative' = TailDerivative(eps_0, jj, x, cfx, dx)
    /\ simp' = [pc |-> "head", eps_0 |-> eps_0,
                delta_temp |-> TailDelta(eps_0, jj, x, cfx, dx),
                derivative |-> TailDerivative(eps_0, jj, x, cfx, dx)]
    /\ pc' = "loop"
    /\ UNCHANGED <<inputs, grid, density, composed, eps_0, kk, outcome, memo,
                   harness>>

\* while np.abs(delta_temp - target_delta) > tol_newton:
\* The loop with a single evaluation does its whole next iteration here.
LoopTest ==
    /\ pc = "loop"
    /\ pc' = IF NotConverged(delta_temp, args.target_delta) THEN "step"
             ELSE "exit"
    /\ simp' = SingleEvaluationIteration(simp, x, cfx, dx, args.target_delta,
                                         args.L)
    /\ UNCHANGED <<inputs, grid, density, composed, eps_0, newton, outcome,
                   memo, harness>>

\* The Newton update, then the break out of range.
Step ==
    /\ pc = "step"
    /\ eps_0' = NewtonStep(eps_0, delta_temp, derivative, args.target_delta)
    /\ pc' = IF LeavesWindow(eps_0', args.L) THEN "exit" ELSE "eval1"
    /\ UNCHANGED <<inputs, grid, density, composed, newton, outcome, simp,
                   memo, harness>>

\* exp_e, dexp_e, kk and the first delta_temp of the iteration.
Eval1 ==
    /\ pc = "eval1"
    /\ IF IsNaN(CRe(eps_0)) THEN Raise("ValueError")
       ELSE IF KkRaises(eps_0) THEN Raise("OverflowError")
       ELSE /\ kk' = Kk(args.nx, args.L, eps_0)
            /\ tail' = SliceFrom(args.nx, Kk(args.nx, args.L, eps_0) + 1)
            /\ delta_temp' = FirstDelta(eps_0, kk', x, cfx, dx)
            /\ pc' = "eval2"
            /\ UNCHANGED <<inputs, grid, density, composed, eps_0, derivative,
                           outcome, simp>>
    /\ UNCHANGED <<memo, harness>>

\* Evaluate delta(eps_0) and its derivative.
Eval2 ==
    /\ pc = "eval2"
    /\ delta_temp' = SecondDelta(eps_0, kk, x, cfx, dx)
    /\ derivative' = SecondDerivative(eps_0, kk, x, cfx, dx)
    /\ pc' = "loop"
    /\ UNCHANGED <<inputs, grid, density, composed, eps_0, kk, tail, outcome,
                   simp, memo, harness>>

\* The final window check and the return.
Exit ==
    /\ pc = "exit"
    /\ result' = IF OutOfWindow(eps_0, args.L) THEN PInf ELSE CRe(eps_0)
    /\ pc' = "returned"
    /\ UNCHANGED <<inputs, grid, density, composed, eps_0, newton, exc, simp,
                   memo, harness>>

Init ==
    /\ pc = "idle"
    /\ variant = "unbounded"
    /\ args = NoArgs
    /\ dx = 0 /\ ii = 0 /\ jj = 0 /\ kk = 0
    /\ x = Unset /\ fx = Unset /\ FF1 = Unset /\ cfx = Unset
    /\ tail = {}
    /\ eps_0 = CZero /\ delta_temp = CZero /\ derivative = CZero
    /\ result = 0
    /\ exc = "none"
    /\ simp = None
    /\ memo = None
    /\ harr = Unset /\ horig = Unset /\ hflips = 0

Next ==
    \/ Call
    \/ Grid
    \/ DensityStep
    \/ FlipFx
    \/ FftStep
    \/ IfftStep
    \/ FlipCfx
    \/ Eval0
    \/ LoopTest
    \/ Step
    \/ Eval1
    \/ Eval2
    \/ Exit

Spec == Init /\ [][Next]_vars

Positions ==
    {"idle", "grid", "density", "flip1", "fft", "ifft", "flip2", "eval0",
     "loop", "step", "eval1", "eval2", "exit", "returned", "raised"}

\* A step of a call that has been entered and has not ended.  Each of them
\* moves pc, and a call that has not ended always has one to take.
Advance ==
    /\ pc \notin Terminal
    /\ pc' \in Positions
    /\ pc' # pc

\* The program is sequential and deterministic: a call that has not ended
\* takes its next step.
FairSpec == Spec /\ WF_pc(Advance)

(***************************************************************************)
(* Repeated calls.  A caller calls the entry points again and again and    *)
(* may remember a completed call: its arguments and how it ended.          *)
(***************************************************************************)
RepeatArgSet ==
    [target_delta : {0, Scale \div 10}, sigma : {Scale \div 4, Scale},
     q : {Scale \div 2}, ncomp : {1}, nx : {2, 4},
     L : {(7 * Scale) \div 10, Scale}]

Completed ==
    [pc |-> "done", variant |-> variant, args |-> args, end |-> pc,
     result |-> result, exc |-> exc, eps_0 |-> eps_0]

CallAgain ==
    /\ pc \in Terminal
    /\ \E v \in Variants, a \in RepeatArgSet : Enter(v, a)
    /\ memo' \in (IF pc = "idle" THEN {memo} ELSE {memo, Completed})
    /\ UNCHANGED harness

NextRepeat ==
    \/ CallAgain
    \/ Grid
    \/ DensityStep
    \/ FlipFx
    \/ FftStep
    \/ IfftStep
    \/ FlipCfx
    \/ Eval0
    \/ LoopTest
    \/ Step
    \/ Eval1
    \/ Eval2
    \/ Exit

SpecRepeat == Init /\ [][NextRepeat]_vars

(***************************************************************************)
(* The flip step alone, applied to arrays of every even length up to       *)
(* 2 * HalfMax with entries in 0 .. MaxVal, at most MaxFlips times.        *)
(***************************************************************************)
HalfMax == 2
MaxVal == 2
MaxFlips == 2

FlipArrays == UNION {[Idx(2 * h) -> 0 .. MaxVal] : h \in 1 .. HalfMax}

InitFlip ==
    /\ pc = "idle"
    /\ variant = "unbounded"
    /\ args = NoArgs
    /\ dx = 0 /\ ii = 0 /\ jj = 0 /\ kk = 0
    /\ x = Unset /\ fx = Unset /\ FF1 = Unset /\ cfx = Unset
    /\ tail = {}
    /\ eps_0 = CZero /\ delta_temp = CZero /\ derivative = CZero
    /\ result = 0
    /\ exc = "none"
    /\ simp = None
    /\ memo = None
    /\ harr \in FlipArrays
    /\ horig = harr
    /\ hflips = 0

\* The flip of fx.
HarnessFlipFx ==
    /\ hflips < MaxFlips
    /\ harr' = Flip(harr)
    /\ hflips' = hflips + 1
    /\ UNCHANGED <<pc, inputs, grid, density, composed, eps_0, newton,
                   outcome, simp, memo, horig>>

\* The flip of cfx.
HarnessFlipCfx ==
    /\ hflips < MaxFlips
    /\ harr' = FlipC(harr)
    /\ hflips' = hflips + 1
    /\ UNCHANGED <<pc, inputs, grid, density, composed, eps_0, newton,
                   outcome, simp, memo, horig>>

NextFlip == HarnessFlipFx \/ HarnessFlipCfx

SpecFlip == InitFlip /\ [][NextFlip]_vars

(***************************************************************************)
(* The claims.                                                             *)
(***************************************************************************)
\* Every imaginary part the loop holds is 0 or not a number, which is what
\* CExp relies on.
ImagExact ==
    \A z \in {eps_0, delta_temp, derivative} : CIm(z) = 0 \/ IsNaN(CIm(z))

ValidConfig ==
    /\ args.sigma > 0
    /\ args.q > 0 /\ args.q <= Scale
    /\ args.nx > 0 /\ args.nx % 2 = 0
    /\ args.L > 0

\* C1: a call returns +infinity exactly when the real part of the final
\* eps_0 is below -L or above L; otherwise it returns that real part, so a
\* finite returned value lies in [-L, L].
C1_ReturnWindow ==
    pc = "returned" =>
        /\ result = PInf <=> (CRe(eps_0) < -args.L \/ CRe(eps_0) > args.L)
        /\ result # PInf =>
              /\ result = CRe(eps_0)
              /\ -args.L <= result /\ result <= args.L

\* C1: a call has returned +infinity after the iterate left the window.
C1_Witness ==
    /\ pc = "returned"
    /\ result = PInf
    /\ CRe(eps_0) < -args.L
    /\ ValidConfig

\* C2: a finite returned epsilon is converged, here for a valid
\* configuration: delta_temp and derivative were evaluated by the tail
\* evaluator at the returned eps_0 and |delta_temp - target_delta| <=
\* tol_newton.
C2_FiniteIsConverged ==
    pc = "returned" /\ result # PInf /\ ValidConfig =>
        /\ delta_temp =
               CMulReal(CSumOver(Integrand(ExpE(eps_0, x), cfx), tail), dx)
        /\ derivative =
               CMulReal(CSumOver(Integrand(DexpE(eps_0, x), cfx), tail), dx)
        /\ IsFin(CRe(delta_temp)) /\ CIm(delta_temp) = 0
        /\ Abs(CRe(delta_temp) - args.target_delta) <= TolNewton

\* C3: the Newton loop terminates: from every loop head of a call with a
\* valid configuration the call comes to its exit (converged or out of
\* window) or ends.
C3_LoopTerminates ==
    (pc = "loop" /\ ValidConfig) ~> (pc \in {"exit", "returned", "raised"})

\* C4: an invalid configuration is rejected before any pipeline step runs:
\* a call with one is at its entry or has raised with no grid built.
C4_InvalidFailsFast ==
    pc # "idle" /\ ~ValidConfig =>
        \/ pc = "grid"
        \/ pc = "raised" /\ x = Unset

\* C5: a call with a valid configuration never ends by an exception.
C5_ValidNeverRaises == ValidConfig => pc # "raised"

\* C6: two calls of the same entry point with the same arguments end the
\* same way with the same result, and a call starts with no local variable
\* of an earlier call assigned.
C6_SameArgsSameResult ==
    /\ pc \in {"returned", "raised"} /\ memo.pc = "done"
       /\ memo.variant = variant /\ memo.args = args =>
           /\ memo.end = pc
           /\ memo.result = result
           /\ memo.exc = exc
    /\ pc = "grid" =>
           /\ x = Unset /\ fx = Unset /\ FF1 = Unset /\ cfx = Unset
           /\ eps_0 = CZero /\ delta_temp = CZero /\ derivative = CZero

\* C6: a second call with the arguments of a remembered call has returned a
\* solved epsilon after iterating.
C6_Witness ==
    /\ pc = "returned"
    /\ memo.pc = "done"
    /\ memo.variant = variant /\ memo.args = args
    /\ memo.result = result
    /\ result # PInf /\ result # 0

\* C7: in the remove/add variant with q in (0, 1), the density is computed
\* at exactly the grid indices i with x_i > ln(1 - q) and is 0 elsewhere.
C7_BoundarySplit ==
    /\ variant = "unbounded"
    /\ pc \in {"flip1"}
    /\ ValidConfig /\ args.q < Scale
    => /\ SliceFrom(args.nx, ii + 1) =
              {i \in Idx(args.nx) : CRe(x[i]) > LogOneMinusQ(args.q)}
       /\ \A i \in Idx(args.nx) :
              CRe(x[i]) <= LogOneMinusQ(args.q) => fx[i] = 0

\* C8: each tail evaluation, here of a call with a valid configuration, sums
\* over exactly the grid indices i with x_i > eps_0, and its start index
\* lies in [0, nx].
C8_TailIndexSet ==
    pc \in {"loop", "eval2"} /\ ValidConfig =>
        /\ tail = {i \in Idx(args.nx) : CRe(x[i]) > CRe(eps_0)}
        /\ jj \in 0 .. args.nx
        /\ kk \in 0 .. args.nx

\* The array b with b[i] = a[(i + n/2) mod n].
HalfRotation(a) == [i \in DOMAIN a |-> a[(i + Size(a) \div 2) % Size(a)]]

\* C9: one flip of an array of even length is its rotation by half its
\* length, whichever of the two flips is applied, and two flips give the
\* array back.
C9_FlipIsHalfRotation ==
    /\ Size(harr) = Size(horig)
    /\ hflips % 2 = 1 => harr = HalfRotation(horig)
    /\ hflips % 2 = 0 => harr = horig

\* C9: an array whose halves differ has been flipped once.
C9_Witness ==
    /\ hflips = 1
    /\ Size(horig) = 4
    /\ horig[0] # horig[2]
    /\ harr # horig

\* The loop as written and the loop with a single evaluation are at the
\* same loop head, or have left the loop the same way with the same value.
LoopsAgree ==
    /\ pc = "loop" =>
           /\ simp.pc = "head"
           /\ simp.eps_0 = eps_0
           /\ simp.delta_temp = delta_temp
           /\ simp.derivative = derivative
    /\ pc \in {"exit", "returned"} =>
           /\ simp.pc = "exit"
           /\ simp.eps_0 = eps_0
    /\ pc = "returned" =>
           result = IF OutOfWindow(simp.eps_0, args.L) THEN PInf
                    ELSE CRe(simp.eps_0)
    /\ pc = "raised" /\ simp.pc # "off" => simp.pc = "raised"

\* A step inside the loop leaves cfx, x, dx and FF1 alone.
LoopFrame ==
    pc \in {"loop", "step", "eval1", "eval2"} => UNCHANGED <<cfx, x, dx, FF1>>

\* C10: the loop as written and a loop with one tail evaluation per
\* iteration hold the same (eps_0, delta_temp, derivative) at every loop
\* head, leave the loop the same way and return the same value, and the
\* loop body leaves cfx, x, dx and FF1 unchanged.
C10_SingleEvaluationEquivalent == []LoopsAgree /\ [][LoopFrame]_vars

\* C10: both loops are at a loop head after two iterations or more, the
\* first evaluation having been discarded.
C10_Witness ==
    /\ pc = "loop"
    /\ simp.pc = "head"
    /\ kk > 0
    /\ eps_0 # CZero
    /\ IsFin(CRe(delta_temp))
    /\ CRe(delta_temp) # args.target_delta

====
